---- MODULE Spec2Model ----
(***************************************************************************)
(* Model of the FastAPI / SQLAlchemy-async skeleton:                       *)
(*   app/db.py        the process-wide engine (connection pool, pre-ping)  *)
(*   app/lifespan.py  the lifespan hook: probe, yield, dispose             *)
(*   app/main.py      the application and its single route GET /health     *)
(*   app/models.py    the declarative schema of table "examples"           *)
(*                                                                         *)
(* Three specifications share the module:                                  *)
(*   Spec       one process run: the hook driven by the ASGI server, the   *)
(*              health route, and the database as environment;             *)
(*   SpecPool   callers checking connections out of and into the engine;   *)
(*   SpecTable  insertions into a table migrated from the declared schema. *)
(***************************************************************************)
EXTENDS Integers, Sequences, FiniteSets

\* ------------------------------------------------------------------ bounds
MaxRequests == 3        \* GET /health requests issued in one run
MaxConns    == 3        \* connections the pool may have open at once
MaxId       == 3        \* ids offered to insertions are 1..MaxId
MaxRows     == 3        \* rows the table may hold

VARIABLES
    pc,            \* position of the lifespan coroutine
    hookError,     \* the exception that left the hook, "none" if none
    server,        \* phase of the ASGI server driving the hook
    dbUp,          \* is the database reachable
    idle,          \* idle pooled connections, each TRUE (live) or FALSE (dead)
    conn,          \* connection held by the hook: "none", "live", "dead"
    txOpen,        \* does the hook have a transaction open
    probeRuns,     \* times the startup probe was started
    probeDb,       \* what the probe's connect found: "unknown", "up", "down"
    disposeCalls,  \* calls of engine.dispose() made by the hook
    disposeFailed, \* did engine.dispose() raise
    accepted,      \* requests the listener accepted
    inflight,      \* accepted requests not yet answered
    log,           \* answers sent, in order: [req, dbUp, response]
    out,           \* SpecPool: connections checked out by callers
    handed,        \* SpecPool: outcome of the latest checkout
    rows,          \* SpecTable: rows of table "examples", in insertion order
    last           \* SpecTable: the latest insertion and its outcome

hookVars  == <<pc, hookError, conn, txOpen, probeRuns, probeDb, disposeCalls,
               disposeFailed>>
httpVars  == <<accepted, inflight, log>>
poolVars  == <<out, handed>>
tableVars == <<rows, last>>
vars == <<pc, hookError, server, dbUp, idle, conn, txOpen, probeRuns, probeDb,
          disposeCalls, disposeFailed, accepted, inflight, log, out, handed,
          rows, last>>

\* ------------------------------------------------------------ app/db.py
\* a mutant: the engine created without pre-ping
pool_pre_ping_off == FALSE

\* create_async_engine(..., pool_pre_ping=True)
pool_pre_ping == TRUE

AllDead(pool) == [i \in DOMAIN pool |-> FALSE]

\* Checking a connection out of the pool `pool` while the database is
\* reachable iff `up`.  An empty pool connects afresh.  A pooled connection is
\* pinged when pre-ping is on; a failed ping invalidates the pool and
\* reconnects, which raises when the database is unreachable.
\* Result: ok (was a connection handed out), alive (its state), rest (the pool).
PoolCheckout(pool, up) ==
    IF pool = <<>>
    THEN [ok |-> up, alive |-> up, rest |-> <<>>]
    ELSE IF Head(pool) \/ ~pool_pre_ping
         THEN [ok |-> TRUE, alive |-> Head(pool), rest |-> Tail(pool)]
         ELSE [ok |-> up, alive |-> up, rest |-> <<>>]

\* ---------------------------------------------------------- app/main.py
\* a mutant: the handler returns another payload
health_check_up == [status |-> "up"]

\* async def health_check(): return {"status": "ok"}
health_check == [status |-> "ok"]

\* @app.get("/health"): the returned mapping is sent with the route's default
\* status code
HealthResponse == [status |-> 200, body |-> health_check]

Requests == 1..MaxRequests

Last(s) == s[Len(s)]

\* ------------------------------------------------------- the environment
\* The database becomes unreachable: every open connection is dead from now on.
DbDown ==
    /\ dbUp
    /\ dbUp' = FALSE
    /\ idle' = AllDead(idle)
    /\ out' = AllDead(out)
    /\ conn' = IF conn = "live" THEN "dead" ELSE conn
    /\ UNCHANGED <<pc, hookError, server, txOpen, probeRuns, probeDb,
                   disposeCalls, disposeFailed, handed>>
    /\ UNCHANGED httpVars
    /\ UNCHANGED tableVars

\* The database becomes reachable again; connections that died stay dead.
DbRecover ==
    /\ ~dbUp
    /\ dbUp' = TRUE
    /\ UNCHANGED <<idle, server>>
    /\ UNCHANGED hookVars
    /\ UNCHANGED httpVars
    /\ UNCHANGED poolVars
    /\ UNCHANGED tableVars

\* ------------------------------------------------------ app/lifespan.py
Phase ==
    CASE pc \in {"begin", "run_sync", "exit"} -> "starting"
      [] pc = "yield"                         -> "running"
      [] pc = "dispose"                       -> "stopping"
      [] OTHER                                -> "ended"

\* a mutant: the probe's failure is caught and the hook carries on to its yield
BeginSwallow ==
    /\ pc = "begin"
    /\ LET r == PoolCheckout(idle, dbUp) IN
         /\ probeRuns' = probeRuns + 1
         /\ probeDb' = IF dbUp THEN "up" ELSE "down"
         /\ idle' = r.rest
         /\ IF r.ok
            THEN /\ conn' = IF r.alive THEN "live" ELSE "dead"
                 /\ txOpen' = TRUE
                 /\ pc' = "run_sync"
            ELSE /\ pc' = "yield"
                 /\ UNCHANGED <<conn, txOpen>>
    /\ UNCHANGED <<hookError, server, dbUp, disposeCalls, disposeFailed>>
    /\ UNCHANGED httpVars
    /\ UNCHANGED poolVars
    /\ UNCHANGED tableVars

\* a mutant: a failed probe is tried again
BeginRetry ==
    /\ pc = "begin"
    /\ probeRuns < 3
    /\ LET r == PoolCheckout(idle, dbUp) IN
         /\ probeRuns' = probeRuns + 1
         /\ probeDb' = IF dbUp THEN "up" ELSE "down"
         /\ idle' = r.rest
         /\ IF r.ok
            THEN /\ conn' = IF r.alive THEN "live" ELSE "dead"
                 /\ txOpen' = TRUE
                 /\ pc' = "run_sync"
            ELSE UNCHANGED <<pc, conn, txOpen>>
    /\ UNCHANGED <<hookError, server, dbUp, disposeCalls, disposeFailed>>
    /\ UNCHANGED httpVars
    /\ UNCHANGED poolVars
    /\ UNCHANGED tableVars

\* `async with engine.begin() as conn:` entered: a connection is checked out
\* of the pool and a transaction begun on it.  A failed connect raises out of
\* the hook.
Begin ==
    /\ pc = "begin"
    /\ LET r == PoolCheckout(idle, dbUp) IN
         /\ probeRuns' = probeRuns + 1
         /\ probeDb' = IF dbUp THEN "up" ELSE "down"
         /\ idle' = r.rest
         /\ IF r.ok
            THEN /\ conn' = IF r.alive THEN "live" ELSE "dead"
                 /\ txOpen' = TRUE
                 /\ pc' = "run_sync"
                 /\ UNCHANGED hookError
            ELSE /\ pc' = "raised"
                 /\ hookError' = "probe"
                 /\ UNCHANGED <<conn, txOpen>>
    /\ UNCHANGED <<server, dbUp, disposeCalls, disposeFailed>>
    /\ UNCHANGED httpVars
    /\ UNCHANGED poolVars
    /\ UNCHANGED tableVars

\* `await conn.run_sync(lambda _: None)`: the callable does nothing and sends
\* nothing to the database.
RunSync ==
    /\ pc = "run_sync"
    /\ pc' = "exit"
    /\ UNCHANGED <<hookError, server, dbUp, idle, conn, txOpen, probeRuns,
                   probeDb, disposeCalls, disposeFailed>>
    /\ UNCHANGED httpVars
    /\ UNCHANGED poolVars
    /\ UNCHANGED tableVars

\* a mutant: the hook yields inside the `async with` block
ExitBeginKeep ==
    /\ pc = "exit"
    /\ pc' = "yield"
    /\ UNCHANGED <<hookError, server, dbUp, idle, conn, txOpen, probeRuns,
                   probeDb, disposeCalls, disposeFailed>>
    /\ UNCHANGED httpVars
    /\ UNCHANGED poolVars
    /\ UNCHANGED tableVars

\* The `async with` block is left: the transaction is committed and the
\* connection released to the pool, also when the commit raises.  On a
\* connection that died meanwhile the commit either raises (the connection is
\* invalidated) or, nothing having been sent in the transaction, passes (the
\* connection goes back to the pool as it is).  Then the hook reaches `yield`.
ExitBegin ==
    /\ pc = "exit"
    /\ conn' = "none"
    /\ txOpen' = FALSE
    /\ \/ /\ conn = "live"
          /\ idle' = Append(idle, TRUE)
          /\ pc' = "yield"
          /\ UNCHANGED hookError
       \/ /\ conn = "dead"
          /\ idle' = Append(idle, FALSE)
          /\ pc' = "yield"
          /\ UNCHANGED hookError
       \/ /\ conn = "dead"
          /\ idle' = idle
          /\ pc' = "raised"
          /\ hookError' = "probe"
    /\ UNCHANGED <<server, dbUp, probeRuns, probeDb, disposeCalls, disposeFailed>>
    /\ UNCHANGED httpVars
    /\ UNCHANGED poolVars
    /\ UNCHANGED tableVars

\* The server resumes the hook after its `yield` (lifespan.shutdown).
ResumeAfterYield ==
    /\ server = "stopping"
    /\ pc = "yield"
    /\ pc' = "dispose"
    /\ UNCHANGED <<hookError, server, dbUp, idle, conn, txOpen, probeRuns,
                   probeDb, disposeCalls, disposeFailed>>
    /\ UNCHANGED httpVars
    /\ UNCHANGED poolVars
    /\ UNCHANGED tableVars

\* a mutant: the yield is wrapped in try/finally, so dispose runs on a throw too
ThrowAtYieldFinally ==
    /\ server = "stopping"
    /\ pc = "yield"
    /\ pc' = "dispose"
    /\ hookError' = "thrown"
    /\ UNCHANGED <<server, dbUp, idle, conn, txOpen, probeRuns, probeDb,
                   disposeCalls, disposeFailed>>
    /\ UNCHANGED httpVars
    /\ UNCHANGED poolVars
    /\ UNCHANGED tableVars

\* The server throws into the hook at its `yield` (an exception or a
\* cancellation of the lifespan task): nothing surrounds the yield, so the
\* exception leaves the hook at once.
ThrowAtYield ==
    /\ server = "stopping"
    /\ pc = "yield"
    /\ pc' = "raised"
    /\ hookError' = "thrown"
    /\ UNCHANGED <<server, dbUp, idle, conn, txOpen, probeRuns, probeDb,
                   disposeCalls, disposeFailed>>
    /\ UNCHANGED httpVars
    /\ UNCHANGED poolVars
    /\ UNCHANGED tableVars

\* a mutant: a failed dispose is caught and tried again
DisposeRetry ==
    /\ pc = "dispose"
    /\ disposeCalls < 3
    /\ disposeCalls' = disposeCalls + 1
    /\ \/ /\ idle' = <<>>
          /\ pc' = "returned"
          /\ UNCHANGED disposeFailed
       \/ /\ disposeFailed' = TRUE
          /\ UNCHANGED <<idle, pc>>
    /\ UNCHANGED <<hookError, server, dbUp, conn, txOpen, probeRuns, probeDb>>
    /\ UNCHANGED httpVars
    /\ UNCHANGED poolVars
    /\ UNCHANGED tableVars

\* `await engine.dispose()`: the pool's connections are closed.  Should the
\* call raise, the exception leaves the hook.
Dispose ==
    /\ pc = "dispose"
    /\ disposeCalls' = disposeCalls + 1
    /\ \/ /\ idle' = <<>>
          /\ pc' = "returned"
          /\ UNCHANGED <<hookError, disposeFailed>>
       \/ /\ disposeFailed' = TRUE
          /\ hookError' = "dispose"
          /\ pc' = "raised"
          /\ UNCHANGED idle
    /\ UNCHANGED <<server, dbUp, conn, txOpen, probeRuns, probeDb>>
    /\ UNCHANGED httpVars
    /\ UNCHANGED poolVars
    /\ UNCHANGED tableVars

\* ---------------------------------------------------------- app/main.py
\* app = FastAPI(lifespan=lifespan): the hook has yielded, startup is
\* complete and the listener opens.
StartupComplete ==
    /\ server = "starting"
    /\ pc = "yield"
    /\ server' = "ready"
    /\ UNCHANGED <<dbUp, idle>>
    /\ UNCHANGED hookVars
    /\ UNCHANGED httpVars
    /\ UNCHANGED poolVars
    /\ UNCHANGED tableVars

\* The hook raised before yielding: startup has failed, the process ends
\* without ever listening.
StartupFailed ==
    /\ server = "starting"
    /\ pc = "raised"
    /\ server' = "failed"
    /\ UNCHANGED <<dbUp, idle>>
    /\ UNCHANGED hookVars
    /\ UNCHANGED httpVars
    /\ UNCHANGED poolVars
    /\ UNCHANGED tableVars

\* A GET /health request arrives at the open listener.
Accept ==
    /\ server = "ready"
    /\ \E r \in Requests \ accepted :
         /\ accepted' = accepted \cup {r}
         /\ inflight' = inflight \cup {r}
    /\ UNCHANGED <<server, dbUp, idle, log>>
    /\ UNCHANGED hookVars
    /\ UNCHANGED poolVars
    /\ UNCHANGED tableVars

\* a mutant: the handler pings the database through the pool
HealthCheckPing ==
    /\ server \in {"ready", "stopping"}
    /\ \E r \in inflight :
         LET c == PoolCheckout(idle, dbUp) IN
         /\ inflight' = inflight \ {r}
         /\ idle' = IF c.ok THEN Append(c.rest, c.alive) ELSE c.rest
         /\ log' = Append(log, [req |-> r, dbUp |-> dbUp,
                                response |-> IF c.ok /\ c.alive
                                             THEN HealthResponse
                                             ELSE [status |-> 500,
                                                   body |-> [status |-> "error"]]])
    /\ UNCHANGED <<server, dbUp, accepted>>
    /\ UNCHANGED hookVars
    /\ UNCHANGED poolVars
    /\ UNCHANGED tableVars

\* The route handler runs for one request in flight.  It has no await, so it
\* runs to its return in one step of the event loop.
HealthCheck ==
    /\ server \in {"ready", "stopping"}
    /\ \E r \in inflight :
         /\ inflight' = inflight \ {r}
         /\ log' = Append(log, [req |-> r, dbUp |-> dbUp,
                                response |-> HealthResponse])
    /\ UNCHANGED <<server, dbUp, idle, accepted>>
    /\ UNCHANGED hookVars
    /\ UNCHANGED poolVars
    /\ UNCHANGED tableVars

\* The process is told to stop: the listener closes.
Shutdown ==
    /\ server = "ready"
    /\ server' = "stopping"
    /\ UNCHANGED <<dbUp, idle>>
    /\ UNCHANGED hookVars
    /\ UNCHANGED httpVars
    /\ UNCHANGED poolVars
    /\ UNCHANGED tableVars

\* The hook has ended after shutdown was asked for: the process exits.
Exit ==
    /\ server = "stopping"
    /\ pc \in {"returned", "raised"}
    /\ server' = "exited"
    /\ UNCHANGED <<dbUp, idle>>
    /\ UNCHANGED hookVars
    /\ UNCHANGED httpVars
    /\ UNCHANGED poolVars
    /\ UNCHANGED tableVars

Init ==
    /\ pc = "begin"
    /\ hookError = "none"
    /\ server = "starting"
    /\ dbUp \in BOOLEAN
    /\ idle = <<>>
    /\ conn = "none"
    /\ txOpen = FALSE
    /\ probeRuns = 0
    /\ probeDb = "unknown"
    /\ disposeCalls = 0
    /\ disposeFailed = FALSE
    /\ accepted = {}
    /\ inflight = {}
    /\ log = <<>>
    /\ out = <<>>
    /\ handed = [found |-> "none", dbUp |-> TRUE, result |-> "none"]
    /\ rows = <<>>
    /\ last = [id |-> 0, name |-> "", ok |-> FALSE]

Next ==
    \/ DbDown
    \/ DbRecover
    \/ Begin
    \/ RunSync
    \/ ExitBegin
    \/ StartupComplete
    \/ StartupFailed
    \/ Accept
    \/ HealthCheck
    \/ Shutdown
    \/ ResumeAfterYield
    \/ ThrowAtYield
    \/ Dispose
    \/ Exit

Spec == Init /\ [][Next]_vars

\* ------------------------------------------- app/db.py: callers of the pool
\* One connection of `s` less, the one at index i.
Without(s, i) == [j \in 1..(Len(s) - 1) |-> IF j < i THEN s[j] ELSE s[j + 1]]

\* A caller takes a connection from the engine (engine.connect(), engine.begin()
\* or a session of AsyncSessionLocal at its first statement).  The pool opens
\* at most MaxConns connections; the outcome is recorded in `handed`: what the
\* pool found (an empty pool, a live or a dead pooled connection), whether
\* the database was reachable, and what the caller got.
Checkout ==
    /\ Len(out) + Len(idle) < MaxConns \/ idle # <<>>
    /\ LET r == PoolCheckout(idle, dbUp) IN
         /\ idle' = r.rest
         /\ out' = IF r.ok THEN Append(out, r.alive) ELSE out
         /\ handed' = [found  |-> IF idle = <<>> THEN "none"
                                  ELSE IF Head(idle) THEN "live" ELSE "dead",
                       dbUp   |-> dbUp,
                       result |-> IF ~r.ok THEN "error"
                                  ELSE IF r.alive THEN "live" ELSE "dead"]
    /\ UNCHANGED <<server, dbUp>>
    /\ UNCHANGED hookVars
    /\ UNCHANGED httpVars
    /\ UNCHANGED tableVars

\* A caller closes its connection or session: the connection goes back to the
\* pool as it is, or, if an error on it invalidated it, is discarded.
Checkin ==
    /\ \E i \in 1..Len(out) :
         /\ out' = Without(out, i)
         /\ \/ idle' = Append(idle, out[i])
            \/ /\ ~out[i]
               /\ idle' = idle
    /\ UNCHANGED <<server, dbUp, handed>>
    /\ UNCHANGED hookVars
    /\ UNCHANGED httpVars
    /\ UNCHANGED tableVars

\* An idle pooled connection dies while the database stays reachable (closed
\* by the server or the network).
ConnDie ==
    /\ \E i \in 1..Len(idle) :
         /\ idle[i]
         /\ idle' = [idle EXCEPT ![i] = FALSE]
    /\ UNCHANGED <<server, dbUp>>
    /\ UNCHANGED hookVars
    /\ UNCHANGED httpVars
    /\ UNCHANGED poolVars
    /\ UNCHANGED tableVars

\* The running phase after a successful probe: the probe's connection is idle
\* in the pool.
InitPool ==
    /\ pc = "yield"
    /\ hookError = "none"
    /\ server = "ready"
    /\ dbUp = TRUE
    /\ idle = <<TRUE>>
    /\ conn = "none"
    /\ txOpen = FALSE
    /\ probeRuns = 1
    /\ probeDb = "up"
    /\ disposeCalls = 0
    /\ disposeFailed = FALSE
    /\ accepted = {}
    /\ inflight = {}
    /\ log = <<>>
    /\ out = <<>>
    /\ handed = [found |-> "none", dbUp |-> TRUE, result |-> "none"]
    /\ rows = <<>>
    /\ last = [id |-> 0, name |-> "", ok |-> FALSE]

NextPool ==
    \/ Checkout
    \/ Checkin
    \/ ConnDie
    \/ DbDown
    \/ DbRecover

SpecPool == InitPool /\ [][NextPool]_vars

\* ------------------------------------------------------- app/models.py
\* a mutant: name declared Mapped[Optional[str]]
name_nullable_on == TRUE

\* name: Mapped[str]  -- a non-Optional annotation makes the column NOT NULL
name_nullable == FALSE

\* id: Mapped[int] = mapped_column(primary_key=True)
id_primary_key == TRUE

\* __tablename__ = "examples"
tablename == "examples"

\* Python's None, a name that is missing
None == "None"
Names == {"a", "b", None}
Ids == 1..MaxId

\* SELECT ... FROM examples WHERE id = :id on the table `t`
Select(t, id) == {t[i] : i \in {j \in 1..Len(t) : t[j].id = id}}

\* Does the row (id, name) break a constraint of the declared schema on `t`
Violates(t, id, name) ==
    \/ ~name_nullable /\ name = None
    \/ id_primary_key /\ Select(t, id) # {}

\* INSERT INTO examples (id, name) VALUES (:id, :name): the database rejects a
\* row that breaks a constraint and stores any other.
Insert ==
    /\ \E id \in Ids, name \in Names :
         IF Violates(rows, id, name)
         THEN /\ last' = [id |-> id, name |-> name, ok |-> FALSE]
              /\ UNCHANGED rows
         ELSE /\ Len(rows) < MaxRows
              /\ last' = [id |-> id, name |-> name, ok |-> TRUE]
              /\ rows' = Append(rows, [id |-> id, name |-> name])
    /\ UNCHANGED <<server, dbUp, idle>>
    /\ UNCHANGED hookVars
    /\ UNCHANGED httpVars
    /\ UNCHANGED poolVars

InitTable == Init /\ dbUp

NextTable == Insert

SpecTable == InitTable /\ [][NextTable]_vars

\* ================================================================ claims
\* C1: once the application serves, every GET /health request is answered
\* with status 200 and body exactly {"status": "ok"}, for any number of
\* requests and any order in which the requests in flight are answered; and
\* only accepted requests are answered.
C1_HealthAlwaysOk ==
    /\ \A i \in 1..Len(log) :
         /\ log[i].response = [status |-> 200, body |-> [status |-> "ok"]]
         /\ log[i].req \in accepted
    /\ accepted # {} => server \in {"ready", "stopping", "exited"}

\* C1 witness: two requests answered while another is still in flight.
C1_Witness == Len(log) >= 2 /\ inflight # {}

\* C2: if the database is unreachable when the startup probe connects, the
\* probe raises out of the hook and startup aborts: the server never becomes
\* ready, and no request is accepted or answered in that run.
C2_DbDownAtStartNeverReady ==
    probeDb = "down" =>
        /\ hookError = "probe"
        /\ pc = "raised"
        /\ server \in {"starting", "failed"}
        /\ accepted = {}
        /\ log = <<>>

\* C2 witness: the probe found the database down and the server gave up.
C2_Witness == probeDb = "down" /\ server = "failed" /\ dbUp

\* C3 (as claimed): in every run in which the process shuts down after
\* serving, engine.dispose() was called exactly once by the hook, whatever
\* ended the serving phase.
C3_DisposeExactlyOnce == server = "exited" => disposeCalls = 1

\* C4: an answer to GET /health is 200 {"status": "ok"} whether or not the
\* database is reachable at that moment, and the step that answers takes no
\* connection from the pool and leaves the pool and the hook's connection as
\* they are.
C4_HealthUnaffectedByDb ==
    [][Len(log') > Len(log) =>
         /\ log'[Len(log')].response = [status |-> 200, body |-> [status |-> "ok"]]
         /\ UNCHANGED <<idle, conn, txOpen, out, dbUp>>]_vars

\* C4 witness: the probe found the database up, and a request was answered
\* after the database had become unreachable.
C4_Witness ==
    /\ probeDb = "up"
    /\ Len(log) > 0
    /\ ~log[Len(log)].dbUp
    /\ log[Len(log)].response.status = 200

\* C5: the hook moves starting -> running -> stopping and never back: the
\* probe is started once, a failed probe ends the hook at once and for good,
\* running is entered only from starting with no error raised, and stopping
\* (dispose) only from running.
C5_LinearLifecycle ==
    [][/\ probeRuns' <= 1
       /\ Phase' = "starting" => Phase = "starting"
       /\ Phase' = "running"  => Phase \in {"starting", "running"} /\ hookError' = "none"
                                 /\ probeRuns' = 1
       /\ Phase' = "stopping" => Phase \in {"running", "stopping"}
       /\ Phase = "ended" => Phase' = "ended"
       /\ hookError = "probe" => pc' = "raised" /\ probeRuns' = probeRuns]_vars

\* C5 witness: a run that went through all three phases and returned.
C5_Witness == pc = "returned" /\ server = "exited" /\ probeRuns = 1

\* C8: an error raised by engine.dispose() is not caught by the hook: it
\* leaves the hook, which has ended, and dispose was called once only.
C8_DisposeErrorPropagates ==
    disposeFailed =>
        /\ hookError = "dispose"
        /\ pc = "raised"
        /\ disposeCalls = 1

\* C8 witness: dispose raised and the process went on to exit.
C8_Witness == disposeFailed /\ server = "exited"

\* C9: while the hook is at its yield, and so all the while the server is
\* ready, the hook holds no connection and has no transaction open: the
\* probe's connection is back in the pool or gone.
C9_ProbeReleasedBeforeYield ==
    (pc = "yield" \/ server = "ready") => (conn = "none" /\ ~txOpen)

\* C9 witness: the server is ready with a request in flight, and the probe's
\* connection sits idle in the pool.
C9_Witness == server = "ready" /\ pc = "yield" /\ idle = <<TRUE>> /\ inflight # {}

\* C10: dispose is called only on the normal continuation after the yield:
\* when the probe raised, or something was thrown into the hook at its
\* yield, the hook has ended without any call of engine.dispose().
C10_DisposeOnlyOnNormalResume ==
    /\ hookError \in {"probe", "thrown"} => (disposeCalls = 0 /\ pc = "raised")
    /\ disposeCalls > 0 => hookError \in {"none", "dispose"}

\* C10 witness: the hook was thrown into at its yield, the process exited
\* and the probe's connection is still in the pool.
C10_Witness ==
    hookError = "thrown" /\ server = "exited" /\ idle # <<>> /\ disposeCalls = 0

\* C7: with pre-ping on, a checkout never hands out a dead connection, and
\* it raises only when the database is unreachable: a pooled connection
\* found dead is replaced by a live one.
C7_PrePingNeverHandsOutDead ==
    /\ handed.result # "dead"
    /\ handed.dbUp => handed.result \in {"none", "live"}

\* C7 witness: the pool found a dead pooled connection and the caller got a
\* live one.
C7_Witness == handed.found = "dead" /\ handed.result = "live"

\* C6: an insertion without a name fails and leaves the table unchanged; an
\* insertion with the id of an existing row fails and leaves the table
\* unchanged; an insertion with a new id and a name succeeds and its row is
\* what a select by that id returns.  So no two rows share an id and no row
\* has a missing name.
C6_SchemaConstraints ==
    [][LET dup == \E i \in 1..Len(rows) : rows[i].id = last'.id
           new == [id |-> last'.id, name |-> last'.name]
       IN  /\ last'.name = None => (~last'.ok /\ rows' = rows)
           /\ dup => (~last'.ok /\ rows' = rows)
           /\ (~dup /\ last'.name # None) =>
                 /\ last'.ok
                 /\ Select(rows', last'.id) = {new}
           /\ \A i, j \in 1..Len(rows') : rows'[i].id = rows'[j].id => i = j
           /\ \A i \in 1..Len(rows') : rows'[i].name # None]_vars

\* C6 witness: the table holds rows, and the latest insertion was refused for
\* the id of an existing row although it had a name.
C6_Witness ==
    /\ Len(rows) >= 2
    /\ ~last.ok
    /\ last.name # None
    /\ Select(rows, last.id) # {}

====
